---------------------------- MODULE Spec2Model ----------------------------
(***************************************************************************)
(* A model of the map-reduce coordinator of src/Code.go: the Master's      *)
(* task pools and done channel, the MapTask and ReduceTask goroutines, the *)
(* intermediate files they exchange, and main's phase runner.              *)
(*                                                                         *)
(* Text is modelled down to the token: a token is a sequence of one-       *)
(* character strings, a line is the sequence of tokens strings.Fields      *)
(* yields for it, and a file is the set of its lines (a Go map is ranged   *)
(* over in an unspecified order, and the keys of a map are distinct, so    *)
(* the lines one task writes to one file form a set).                      *)
(***************************************************************************)
EXTENDS Integers, Sequences, FiniteSets, TLC

\* ------------------------------------------------------------------ bounds
\* The most input partitions (*.txt files) a run is given.
MaxMap == 2
\* The most input lines of a run, over all its partitions.
MaxLines == 1
\* The most remote clients calling the lease operations.
MaxClients == 2
\* The most lease calls the remote clients make in all.
MaxCalls == 4
\* The most faults of a run: changes to the intermediate files from outside
\* and writes that fail, together.
MaxFaults == 1
\* The most partitions, and input lines, of the runs whose completion
\* signalling is followed.
MaxGateMap == 1
MaxGateLines == 1

\* --------------------------------------------------------------- constants
\* nReduce := 1
NReduce == 1
\* the fields ParseEHR reads are fields[0..5]
NFields == 6

\* ------------------------------------------------------------------ tokens
Flu == <<"f", "l", "u">>
Cold == <<"c", "o", "l", "d">>
Rest == <<"r", "e", "s", "t">>
Pid == <<"p", "7">>
First == <<"A", "n", "n">>
Last == <<"L", "e", "e">>
Age == <<"3", "0">>

\* A record line of six tokens, and one of four (the spec's malformed line).
GoodLine(d, t) == <<Pid, First, Last, Age, d, t>>
ShortLine == <<Pid, First, Last, Age>>
InputLines == {GoodLine(Flu, Rest), GoodLine(Cold, Rest), ShortLine}

\* The sequences of at most n input lines.
LineSeqs(n) == UNION {[1..k -> InputLines] : k \in 0..n}

\* The contents of n partitions holding at most b lines in all.
RECURSIVE PartitionContents(_, _)
PartitionContents(n, b) ==
    IF n = 0 THEN {<<>>}
    ELSE UNION {{<<ls>> \o rest : rest \in PartitionContents(n - 1, b - Len(ls))} :
                ls \in LineSeqs(b)}

\* The file names ReadDir yields, in its (sorted) order; the second is a
\* name that itself ends like an intermediate file's.
FileNames == <<"a.txt", "a.txt-0.txt", "b.txt", "c.txt">>

\* The characters of a file name.
DotTxt == <<".", "t", "x", "t">>
FileChars(name) ==
    CASE name = "a.txt" -> <<"a">> \o DotTxt
      [] name = "a.txt-0.txt" -> <<"a">> \o DotTxt \o <<"-", "0">> \o DotTxt
      [] name = "b.txt" -> <<"b">> \o DotTxt
      [] name = "c.txt" -> <<"c">> \o DotTxt

Digits == <<"0", "1", "2", "3", "4", "5", "6", "7", "8", "9">>


\* ------------------------------------------------------- text and Go maps
\* A Go map[string]int: a function whose domain is the keys present.
EmptyMap == [k \in {} |-> 0]

\* m[k] += v: the entry is created when absent, also for v = 0.
AddTo(m, k, v) ==
    IF k \in DOMAIN m THEN [m EXCEPT ![k] = @ + v] ELSE m @@ (k :> v)

\* ParseEHR indexes fields[0..5] unchecked: it panics on a shorter line.
ParsePanics(fields) == Len(fields) < NFields

\* The EHR ParseEHR builds from a line of at least six fields.
ParseEHR(fields) ==
    [PatientID |-> fields[1],
     Name      |-> fields[2] \o <<" ">> \o fields[3],
     Age       |-> fields[4],
     Diagnosis |-> fields[5],
     Treatment |-> fields[6]]

\* Whether the scan loop of MapTask panics on these lines.
ScanPanics(lines) == \E i \in 1..Len(lines) : ParsePanics(lines[i])

\* The two tallies MapTask's scan loop builds (lines that do not panic).
RECURSIVE CountLines(_, _)
CountLines(lines, acc) ==
    IF lines = <<>> THEN acc
    ELSE LET ehr == ParseEHR(Head(lines))
         IN CountLines(Tail(lines),
                       [diagnosis |-> AddTo(acc.diagnosis, ehr.Diagnosis, 1),
                        treatment |-> AddTo(acc.treatment, ehr.Treatment, 1)])

\* %v of a non-negative int: its decimal digits.
RECURSIVE FormatInt(_)
FormatInt(n) ==
    IF n < 10 THEN <<Digits[n + 1]>>
    ELSE FormatInt(n \div 10) \o <<Digits[(n % 10) + 1]>>

\* Fprintf "%v %v\n": the tokens of the line written (an empty key leaves
\* the count as the line's only token).
FormatLine(k, n) == IF k = <<>> THEN <<FormatInt(n)>> ELSE <<k, FormatInt(n)>>

\* The lines a range over map m writes.
FormatMap(m) == {FormatLine(k, m[k]) : k \in DOMAIN m}

HexLower == <<"a", "b", "c", "d", "e", "f">>
HexUpper == <<"A", "B", "C", "D", "E", "F">>

\* The value of character c as a digit, and 36 when it is no digit.
DigitValue(c) ==
    IF \E d \in 0..9 : Digits[d + 1] = c
    THEN CHOOSE d \in 0..9 : Digits[d + 1] = c
    ELSE IF \E i \in 1..6 : c \in {HexLower[i], HexUpper[i]}
         THEN 9 + (CHOOSE i \in 1..6 : c \in {HexLower[i], HexUpper[i]})
         ELSE 36
IsDigit(c, base) == DigitValue(c) < base

\* scanNumber's accept loop: the longest prefix of t made of digits of the
\* base and underscores.
RECURSIVE DigitPrefix(_, _)
DigitPrefix(t, base) ==
    IF t = <<>> \/ ~(IsDigit(Head(t), base) \/ Head(t) = "_") THEN <<>>
    ELSE <<Head(t)>> \o DigitPrefix(Tail(t), base)

RECURSIVE DigitsValue(_, _, _)
DigitsValue(ds, base, acc) ==
    IF ds = <<>> THEN acc
    ELSE DigitsValue(Tail(ds), base, acc * base + DigitValue(Head(ds)))

\* scanBasePrefix: the base the letter after a leading 0 selects, 0 if none.
PrefixBase(c) ==
    CASE c \in {"b", "B"} -> 2
      [] c \in {"o", "O"} -> 8
      [] c \in {"x", "X"} -> 16
      [] OTHER -> 0

\* strconv's underscoreOK on the scanned run: every underscore follows a
\* digit (or the base prefix) and is followed by a digit.
UnderscoreOK(run, afterZero) ==
    \A i \in 1..Len(run) :
        run[i] = "_" =>
            /\ i < Len(run) /\ run[i + 1] # "_"
            /\ IF i = 1 THEN afterZero ELSE run[i - 1] # "_"

RECURSIVE StripZeros(_)
StripZeros(ds) == IF ds # <<>> /\ Head(ds) = "0" THEN StripZeros(Tail(ds)) ELSE ds

\* The digits, in the base, of the largest magnitude an int (64 bits) takes:
\* 2^63 - 1, and 2^63 after a minus sign.
IntLimit(base, neg) ==
    LET rep(n, d) == [i \in 1..n |-> d]
    IN CASE base = 2 -> IF neg THEN <<1>> \o rep(63, 0) ELSE rep(63, 1)
         [] base = 8 -> IF neg THEN <<1>> \o rep(21, 0) ELSE rep(21, 7)
         [] base = 16 -> IF neg THEN <<8>> \o rep(15, 0) ELSE <<7>> \o rep(15, 15)
         [] OTHER -> <<9, 2, 2, 3, 3, 7, 2, 0, 3, 6, 8, 5, 4, 7, 7, 5, 8, 0>>
                        \o (IF neg THEN <<8>> ELSE <<7>>)

\* a <= b for two digit sequences of one length.
RECURSIVE DigitsLeq(_, _)
DigitsLeq(a, b) ==
    \/ a = <<>>
    \/ Head(a) < Head(b)
    \/ Head(a) = Head(b) /\ DigitsLeq(Tail(a), Tail(b))

\* Whether strconv.ParseInt takes the digits ds without a range error.
InRange(ds, base, neg) ==
    LET sig == StripZeros(ds)
        lim == IntLimit(base, neg)
    IN \/ Len(sig) < Len(lim)
       \/ Len(sig) = Len(lim) /\ DigitsLeq([i \in 1..Len(sig) |-> DigitValue(sig[i])], lim)

\* Sscanf's %v into an int. scanInt accepts one sign; scanBasePrefix accepts
\* a leading 0 and then b, o or x, and any leading 0 rules out 8 and 9;
\* scanNumber takes the longest run of digits and underscores, and wants at
\* least one unless the 0 was there; strconv.ParseInt(tok, 0, 64) then
\* rejects a prefix with nothing after it, a misplaced underscore and a
\* value out of range. ok is FALSE when Sscanf returns an error, and the
\* variable is then left as it was.
ScanInt(t) ==
    LET signed == t # <<>> /\ Head(t) \in {"-", "+"}
        neg    == signed /\ Head(t) = "-"
        body   == IF signed THEN Tail(t) ELSE t
        zero   == body # <<>> /\ Head(body) = "0"
        rest   == IF zero THEN Tail(body) ELSE body
        letter == IF zero /\ rest # <<>> THEN PrefixBase(Head(rest)) ELSE 0
        base   == IF ~zero THEN 10 ELSE IF letter # 0 THEN letter ELSE 8
        run    == DigitPrefix(IF letter # 0 THEN Tail(rest) ELSE rest, base)
        ds     == SelectSeq(run, LAMBDA c : c # "_")
        ok     == /\ zero \/ run # <<>>
                  /\ letter # 0 => run # <<>>
                  /\ UnderscoreOK(run, zero)
                  /\ InRange(ds, base, neg)
        v      == DigitsValue(ds, base, 0)
    IN [ok |-> ok, value |-> IF ~ok THEN 0 ELSE IF neg THEN 0 - v ELSE v]

\* fmt.Sscanf(line, "%v %v", &key, &count): what the two variables hold
\* afterwards (they start as "" and 0), and whether Sscanf returned an error.
Sscanf(line) ==
    LET n == IF Len(line) >= 2 THEN ScanInt(line[2]) ELSE [ok |-> FALSE, value |-> 0]
    IN [key   |-> IF Len(line) >= 1 THEN line[1] ELSE <<>>,
        count |-> IF n.ok THEN n.value ELSE 0,
        err   |-> ~n.ok]

RECURSIVE FoldLines(_, _)
FoldLines(m, lines) ==
    IF lines = {} THEN m
    ELSE LET l == CHOOSE x \in lines : TRUE
             r == Sscanf(l)
         IN FoldLines(AddTo(m, r.key, r.count), lines \ {l})

\* IntermediateName, were the format to leave out the file name and the
\* task index.
IntermediateNameShared(cat, filename, task) == <<"map", cat, FileNames[1], 0, ".txt">>

\* The name of an intermediate file: "map-<cat>-<filename>-<task>.txt".
IntermediateName(cat, filename, task) == <<"map", cat, filename, task, ".txt">>

\* The string Sprintf builds for the name n, character by character.
CatChars(cat) ==
    IF cat = "diagnosis" THEN <<"d", "i", "a", "g", "n", "o", "s", "i", "s">>
    ELSE <<"t", "r", "e", "a", "t", "m", "e", "n", "t">>
NameText(n) ==
    <<"m", "a", "p", "-">> \o CatChars(n[2]) \o <<"-">> \o FileChars(n[3])
        \o <<"-">> \o FormatInt(n[4]) \o DotTxt

NoFile == [exists |-> FALSE, lines |-> {}]
FileOf(ls) == [exists |-> TRUE, lines |-> ls]
NoReport == [exists |-> FALSE, diagnosis |-> {}, treatment |-> {}]

\* ------------------------------------------------------------------- state
VARIABLES
    files,            \* mr.Files with what each file holds: <<[name, lines]>>
    fs,               \* the intermediate files on disk, by name
    openW,            \* the files created and not yet closed: <<task, name>>
    report,           \* reduce-out.txt
    tampered,         \* how often the environment changed an intermediate file
    lost,             \* how many writes failed, their errors being discarded
    proc,             \* "running", or how the process ended
    mainPc,           \* where main is
    mainI,            \* the index of main's launch loops
    wg,               \* the WaitGroup's counter
    mapPc,            \* where each MapTask goroutine is
    mapCounts,        \* each MapTask's diagnosisCounts and treatmentCounts
    mapTodo,          \* the entries each MapTask's range loop has yet to visit
    mapResults,       \* the buffered channel mapResults
    mapClosed,        \* whether main closed mapResults
    redPc,            \* where each ReduceTask goroutine is
    redI,             \* each ReduceTask's loop index i
    redCounts,        \* each ReduceTask's diagnosisCounts and treatmentCounts
    reduceResults,    \* the buffered channel reduceResults
    reduceClosed,     \* whether main closed reduceResults
    mapTasks,         \* Master.mapTasks, a buffered channel of indices
    reduceTasks,      \* Master.reduceTasks
    donePc,           \* where each call of Master.Done is
    waitPc,           \* where each other caller of Master.Wait is
    leases,           \* the lease calls answered so far, in order
    sent              \* every value sent on a result channel so far

vars == <<files, fs, openW, report, tampered, lost, proc, mainPc, mainI, wg,
          mapPc, mapCounts, mapTodo, mapResults, mapClosed, redPc, redI,
          redCounts, reduceResults, reduceClosed, mapTasks, reduceTasks, donePc,
          waitPc, leases, sent>>

NMap == Len(files)
MapIds == 0..(NMap - 1)
ReduceIds == 0..(NReduce - 1)
\* mr.Files[i]
FileName(i) == files[i + 1].name
Categories == {"diagnosis", "treatment"}
\* The 2*NMap intermediate files ReduceTask reads.
Expected == {IntermediateName(c, FileName(i), i) : c \in Categories, i \in MapIds}

NoCounts == [diagnosis |-> EmptyMap, treatment |-> EmptyMap]

\* for i := 0; i < n; i++ { ch <- i }
Indices(n) == [i \in 1..n |-> i - 1]

\* The callers of Master.Done and, besides main, of Master.Wait.
DoneClients == {"r1"}
DoneCallers == {"main"} \cup DoneClients
Waiters == {"w1"}

\* The state of a run over the given partitions in which main is at pc and
\* the pools hold mapPool and reducePool: nothing has been launched.
StateAt(contents, pc, mapPool, reducePool) ==
    /\ files = [i \in 1..Len(contents) |-> [name |-> FileNames[i], lines |-> contents[i]]]
    /\ fs = [n \in {IntermediateName(c, FileNames[i], i - 1) :
                      c \in Categories, i \in 1..Len(contents)} |-> NoFile]
    /\ openW = {}
    /\ report = NoReport
    /\ tampered = 0
    /\ lost = 0
    /\ proc = "running"
    /\ mainPc = pc
    /\ mainI = 0
    /\ wg = 0
    /\ mapPc = [t \in 0..(Len(contents) - 1) |-> "idle"]
    /\ mapCounts = [t \in 0..(Len(contents) - 1) |-> NoCounts]
    /\ mapTodo = [t \in 0..(Len(contents) - 1) |-> {}]
    /\ mapResults = <<>>
    /\ mapClosed = FALSE
    /\ redPc = [r \in ReduceIds |-> "idle"]
    /\ redI = [r \in ReduceIds |-> 0]
    /\ redCounts = [r \in ReduceIds |-> NoCounts]
    /\ reduceResults = <<>>
    /\ reduceClosed = FALSE
    /\ mapTasks = mapPool
    /\ reduceTasks = reducePool
    /\ donePc = [d \in DoneCallers |-> "idle"]
    /\ waitPc = [w \in Waiters |-> "idle"]
    /\ leases = <<>>
    /\ sent = {}

\* main is entered in a directory that holds the given partitions: no
\* coordinator is built yet.
Boot(contents) == StateAt(contents, "setup", <<>>, <<>>)

\* main up to "master := NewMaster(mr)" and the listener, all having
\* succeeded: the pools hold every index, nothing has been launched.
Start(contents) ==
    StateAt(contents, "launchMap", Indices(Len(contents)), Indices(NReduce))

Init == \E n \in 0..MaxMap : \E contents \in PartitionContents(n, MaxLines) : Boot(contents)

\* The variables of each part of the program.
masterVars == <<mapTasks, reduceTasks, leases>>
gateVars == <<donePc, waitPc>>
mapVars == <<mapPc, mapCounts, mapTodo, mapResults, mapClosed>>
redVars == <<redPc, redI, redCounts, reduceResults, reduceClosed>>
diskVars == <<fs, openW, report, tampered, lost>>
mainVars == <<mainPc, mainI>>

Running == proc = "running"

\* The faults of the run so far.
Faults == tampered + lost

\* ----------------------------------------------------------------- MapTask
\* results <- err (or nil), by map task t: the channel holds NMap values,
\* so the send does not block. Every non-nil error is "error": main only
\* tests err != nil.
MapReport(t, err) ==
    /\ mapResults' = Append(mapResults, err)
    /\ sent' = sent \cup {[phase |-> "map", task |-> t, err |-> err]}

\* MapRead, were the return after results <- err left out: the task reports
\* the error and goes on as if the file had no line.
MapReadNoReturn(t) ==
    /\ proc = "running" /\ mapPc[t] = "read"
    /\ \/ /\ MapReport(t, "error")
          /\ mapPc' = [mapPc EXCEPT ![t] = "createD"]
          /\ UNCHANGED mapCounts
       \/ /\ ScanPanics(files[t + 1].lines)
          /\ mapPc' = [mapPc EXCEPT ![t] = "panicking"]
          /\ UNCHANGED <<mapCounts, mapResults, sent>>
       \/ /\ ~ScanPanics(files[t + 1].lines)
          /\ mapCounts' = [mapCounts EXCEPT ![t] = CountLines(files[t + 1].lines, NoCounts)]
          /\ mapPc' = [mapPc EXCEPT ![t] = "createD"]
          /\ UNCHANGED <<mapResults, sent>>
    /\ UNCHANGED <<files, fs, openW, report, tampered, lost, proc, mainPc, mainI,
                   wg, mapTodo, mapClosed, redPc, redI, redCounts,
                   reduceResults, reduceClosed, mapTasks, reduceTasks, leases,
                   donePc, waitPc>>

\* os.Open and the scan loop: the open or a read may fail, a short line
\* makes ParseEHR panic, and otherwise the two tallies are built.
MapRead(t) ==
    /\ Running /\ mapPc[t] = "read"
    /\ \/ /\ MapReport(t, "error")
          /\ mapPc' = [mapPc EXCEPT ![t] = "wgDone"]
          /\ UNCHANGED mapCounts
       \/ /\ ScanPanics(files[t + 1].lines)
          /\ mapPc' = [mapPc EXCEPT ![t] = "panicking"]
          /\ UNCHANGED <<mapCounts, mapResults, sent>>
       \/ /\ ~ScanPanics(files[t + 1].lines)
          /\ mapCounts' = [mapCounts EXCEPT ![t] = CountLines(files[t + 1].lines, NoCounts)]
          /\ mapPc' = [mapPc EXCEPT ![t] = "createD"]
          /\ UNCHANGED <<mapResults, sent>>
    /\ UNCHANGED <<files, diskVars, proc, mainVars, wg, mapTodo, mapClosed,
                   redVars, masterVars, gateVars>>

\* os.Create of one intermediate file: a failed create is reported and the
\* task returns through its deferred calls; otherwise the file is there,
\* empty, and the range loop over the tally begins (and ends at once over
\* an empty tally).
MapCreate(t, cat, from, loop, next) ==
    /\ Running /\ mapPc[t] = from
    /\ \/ /\ MapReport(t, "error")
          /\ mapPc' = [mapPc EXCEPT ![t] = "closing"]
          /\ UNCHANGED <<fs, openW, mapTodo>>
       \/ /\ LET name == IntermediateName(cat, FileName(t), t)
             IN /\ fs' = [fs EXCEPT ![name] = FileOf({})]
                /\ openW' = openW \cup {<<t, name>>}
          /\ mapTodo' = [mapTodo EXCEPT ![t] = DOMAIN mapCounts[t][cat]]
          /\ mapPc' = [mapPc EXCEPT ![t] = IF DOMAIN mapCounts[t][cat] = {} THEN next ELSE loop]
          /\ UNCHANGED <<mapResults, sent>>
    /\ UNCHANGED <<files, report, tampered, lost, proc, mainVars, wg, mapCounts,
                   mapClosed, redVars, masterVars, gateVars>>

\* One iteration of the range loop, over an entry Go picks: fmt.Fprintf
\* writes its line. What Fprintf returns is discarded, so a write that fails
\* leaves the line out and the loop goes on.
MapWriteLine(t, cat, loop, next) ==
    /\ Running /\ mapPc[t] = loop
    /\ \E k \in mapTodo[t] :
          /\ LET name == IntermediateName(cat, FileName(t), t)
             IN \/ /\ fs' = [fs EXCEPT ![name].lines =
                                  @ \cup {FormatLine(k, mapCounts[t][cat][k])}]
                   /\ UNCHANGED lost
                \/ /\ Faults < MaxFaults
                   /\ lost' = lost + 1
                   /\ UNCHANGED fs
          /\ mapTodo' = [mapTodo EXCEPT ![t] = @ \ {k}]
          /\ mapPc' = [mapPc EXCEPT ![t] = IF mapTodo[t] = {k} THEN next ELSE loop]
    /\ UNCHANGED <<files, openW, report, tampered, proc, mainVars, wg, mapCounts,
                   mapResults, mapClosed, redVars, masterVars, gateVars, sent>>

MapCreateDiagnosis(t) == MapCreate(t, "diagnosis", "createD", "writeD", "createT")
MapWriteDiagnosis(t) == MapWriteLine(t, "diagnosis", "writeD", "createT")
MapCreateTreatment(t) == MapCreate(t, "treatment", "createT", "writeT", "send")
MapWriteTreatment(t) == MapWriteLine(t, "treatment", "writeT", "send")

\* results <- nil
MapSendNil(t) ==
    /\ Running /\ mapPc[t] = "send"
    /\ MapReport(t, "nil")
    /\ mapPc' = [mapPc EXCEPT ![t] = "closing"]
    /\ UNCHANGED <<files, diskVars, proc, mainVars, wg, mapCounts, mapTodo, mapClosed,
                   redVars, masterVars, gateVars>>

\* The intermediate files of map task t.
MapFiles(t) == {IntermediateName(c, FileName(t), t) : c \in Categories}

\* The deferred Close calls of a returning MapTask, which run before the
\* deferred wg.Done (deferred calls run last in, first out).
MapClose(t) ==
    /\ Running /\ mapPc[t] = "closing"
    /\ openW' = {h \in openW : h[1] # t}
    /\ mapPc' = [mapPc EXCEPT ![t] = "wgDone"]
    /\ UNCHANGED <<files, fs, report, tampered, lost, proc, mainVars, wg, mapCounts, mapTodo,
                   mapResults, mapClosed, redVars, masterVars, gateVars, sent>>

\* The deferred wg.Done of a returning MapTask.
MapWgDone(t) ==
    /\ Running /\ mapPc[t] = "wgDone"
    /\ wg' = wg - 1
    /\ mapPc' = [mapPc EXCEPT ![t] = "done"]
    /\ UNCHANGED <<files, diskVars, proc, mainVars, mapCounts, mapTodo, mapResults,
                   mapClosed, redVars, masterVars, gateVars, sent>>

\* A panicking MapTask runs its deferred calls (file.Close, wg.Done) ...
MapPanicDefers(t) ==
    /\ Running /\ mapPc[t] = "panicking"
    /\ wg' = wg - 1
    /\ mapPc' = [mapPc EXCEPT ![t] = "dying"]
    /\ UNCHANGED <<files, diskVars, proc, mainVars, mapCounts, mapTodo, mapResults,
                   mapClosed, redVars, masterVars, gateVars, sent>>

\* ... and then the runtime ends the process: every goroutine stops.
PanicExit(t) ==
    /\ Running /\ mapPc[t] = "dying"
    /\ proc' = "panic"
    /\ UNCHANGED <<files, diskVars, mainVars, wg, mapVars, redVars, masterVars,
                   gateVars, sent>>

\* -------------------------------------------------------------- ReduceTask
\* results <- err (or nil), by reduce task r.
ReduceReport(r, err) ==
    /\ reduceResults' = Append(reduceResults, err)
    /\ sent' = sent \cup {[phase |-> "reduce", task |-> r, err |-> err]}

\* ReduceRead, were a file that cannot be opened skipped and not reported.
ReduceReadSkipMissing(r, cat, from, to, step) ==
    /\ proc = "running" /\ redPc[r] = from /\ redI[r] < NMap
    /\ LET name == IntermediateName(cat, FileName(redI[r]), redI[r])
       IN redCounts' = [redCounts EXCEPT ![r][cat] = FoldLines(@, fs[name].lines)]
    /\ redPc' = [redPc EXCEPT ![r] = to]
    /\ redI' = [redI EXCEPT ![r] = @ + step]
    /\ UNCHANGED <<files, fs, openW, report, tampered, lost, proc, mainPc, mainI, wg,
                   mapPc, mapCounts, mapTodo, mapResults, mapClosed, reduceResults,
                   reduceClosed, mapTasks, reduceTasks, leases, donePc, waitPc,
                   sent>>

\* One os.Open and scan loop of ReduceTask, over the file of category cat
\* of map task i = redI[r]: a missing file fails the open, an open or a
\* read may fail anyway, and otherwise every line is folded into the totals.
ReduceRead(r, cat, from, to, step) ==
    /\ Running /\ redPc[r] = from /\ redI[r] < NMap
    /\ LET name == IntermediateName(cat, FileName(redI[r]), redI[r])
       IN \/ /\ ~fs[name].exists
             /\ ReduceReport(r, "error")
             /\ redPc' = [redPc EXCEPT ![r] = "wgDone"]
             /\ UNCHANGED <<redI, redCounts>>
          \/ /\ fs[name].exists
             /\ ReduceReport(r, "error")
             /\ redPc' = [redPc EXCEPT ![r] = "wgDone"]
             /\ UNCHANGED <<redI, redCounts>>
          \/ /\ fs[name].exists
             /\ redCounts' = [redCounts EXCEPT ![r][cat] = FoldLines(@, fs[name].lines)]
             /\ redPc' = [redPc EXCEPT ![r] = to]
             /\ redI' = [redI EXCEPT ![r] = @ + step]
             /\ UNCHANGED <<reduceResults, sent>>
    /\ UNCHANGED <<files, diskVars, proc, mainVars, wg, mapVars, reduceClosed,
                   masterVars, gateVars>>

ReduceReadDiagnosis(r) == ReduceRead(r, "diagnosis", "diag", "treat", 0)
ReduceReadTreatment(r) == ReduceRead(r, "treatment", "treat", "diag", 1)

\* After the loop: os.Create("reduce-out.txt"), the two sections, and
\* results <- nil; a failed create is reported instead. What Fprintln and
\* Fprintf return is discarded: each write that fails leaves its line out
\* of the report, and nil is sent all the same.
ReduceWriteReport(r) ==
    /\ Running /\ redPc[r] = "diag" /\ redI[r] = NMap
    /\ \/ /\ ReduceReport(r, "error")
          /\ UNCHANGED <<report, lost>>
       \/ \E d \in SUBSET FormatMap(redCounts[r].diagnosis) :
          \E tr \in SUBSET FormatMap(redCounts[r].treatment) :
             LET failed == Cardinality(FormatMap(redCounts[r].diagnosis) \ d)
                             + Cardinality(FormatMap(redCounts[r].treatment) \ tr)
             IN /\ Faults + failed <= MaxFaults
                /\ lost' = lost + failed
                /\ report' = [exists |-> TRUE, diagnosis |-> d, treatment |-> tr]
                /\ ReduceReport(r, "nil")
    /\ redPc' = [redPc EXCEPT ![r] = "wgDone"]
    /\ UNCHANGED <<files, fs, openW, tampered, proc, mainVars, wg, mapVars,
                   redI, redCounts, reduceClosed, masterVars, gateVars>>

\* The deferred calls of a returning ReduceTask, wg.Done last.
ReduceWgDone(r) ==
    /\ Running /\ redPc[r] = "wgDone"
    /\ wg' = wg - 1
    /\ redPc' = [redPc EXCEPT ![r] = "done"]
    /\ UNCHANGED <<files, diskVars, proc, mainVars, mapVars, redI, redCounts,
                   reduceResults, reduceClosed, masterVars, gateVars, sent>>

\* ------------------------------------------------------------ environment
\* Lines that are no "value count" pair: an empty line, and a line whose
\* second token is no integer.
BadLines == {<<>>, <<Flu, <<"x">>>>}

\* Between main's two phases something outside the program deletes an
\* intermediate file, or adds a line to it.
Tamper(name) ==
    /\ Running /\ Faults < MaxFaults
    /\ mainPc = "launchReduce" /\ mainI = 0
    /\ fs[name].exists
    /\ \/ fs' = [fs EXCEPT ![name] = NoFile]
       \/ \E l \in BadLines : fs' = [fs EXCEPT ![name] = FileOf(@.lines \cup {l})]
    /\ tampered' = tampered + 1
    /\ UNCHANGED <<files, openW, report, lost, proc, mainVars, wg, mapVars,
                   redVars, masterVars, gateVars, sent>>

\* -------------------------------------------------------------------- main
\* ReadDir, NewMaster, rpc.Register and net.Listen: when ReadDir or Listen
\* fails log.Fatal ends the process; otherwise the coordinator is built, its
\* pools holding every index, and served.
MainSetup ==
    /\ Running /\ mainPc = "setup"
    /\ \/ /\ proc' = "fatal"
          /\ UNCHANGED <<mainPc, mapTasks, reduceTasks>>
       \/ /\ mapTasks' = Indices(NMap)
          /\ reduceTasks' = Indices(NReduce)
          /\ mainPc' = "launchMap"
          /\ UNCHANGED proc
    /\ UNCHANGED <<files, diskVars, mainI, wg, mapVars, redVars, leases,
                   gateVars, sent>>

\* MainLaunchMap, were main to lease from the pool the index it launches.
MainLaunchMapLeasing ==
    /\ proc = "running" /\ mainPc = "launchMap" /\ mainI < NMap
    /\ mapTasks # <<>>
    /\ mapTasks' = Tail(mapTasks)
    /\ wg' = wg + 1
    /\ mapPc' = [mapPc EXCEPT ![Head(mapTasks)] = "read"]
    /\ mainI' = mainI + 1
    /\ UNCHANGED <<files, fs, openW, report, tampered, lost, proc, mainPc, mapCounts, mapTodo,
                   mapResults, mapClosed, redPc, redI, redCounts, reduceResults,
                   reduceClosed, reduceTasks, leases, donePc, waitPc, sent>>

\* wg.Add(1); go MapTask(filename, i, ...)
MainLaunchMap ==
    /\ Running /\ mainPc = "launchMap" /\ mainI < NMap
    /\ wg' = wg + 1
    /\ mapPc' = [mapPc EXCEPT ![mainI] = "read"]
    /\ mainI' = mainI + 1
    /\ UNCHANGED <<files, diskVars, proc, mainPc, mapCounts, mapTodo, mapResults,
                   mapClosed, redVars, masterVars, gateVars, sent>>

\* wg.Wait() returns once the counter is zero; close(mapResults)
MainMapBarrier ==
    /\ Running /\ mainPc = "launchMap" /\ mainI = NMap
    /\ wg = 0
    /\ mapClosed' = TRUE
    /\ mainPc' = "checkMap"
    /\ UNCHANGED <<files, diskVars, proc, mainI, wg, mapPc, mapCounts, mapTodo,
                   mapResults, redVars, masterVars, gateVars, sent>>

\* Whether a drained result channel held an error.
HasError(results) == \E i \in 1..Len(results) : results[i] # "nil"

\* MainCheckMap, were the errors of the map tasks drained and not looked at.
MainCheckMapIgnore ==
    /\ proc = "running" /\ mainPc = "checkMap"
    /\ mapResults' = <<>>
    /\ mainPc' = "launchReduce" /\ mainI' = 0
    /\ UNCHANGED <<files, fs, openW, report, tampered, lost, proc, wg, mapPc,
                   mapCounts, mapTodo, mapClosed, redPc, redI, redCounts, reduceResults,
                   reduceClosed, mapTasks, reduceTasks, leases, donePc, waitPc,
                   sent>>

\* for err := range results: log.Fatal on the first error, which ends the
\* process; otherwise the channel is drained.
MainCheckMap ==
    /\ Running /\ mainPc = "checkMap"
    /\ mapResults' = <<>>
    /\ IF HasError(mapResults)
       THEN proc' = "fatal" /\ UNCHANGED mainVars
       ELSE mainPc' = "launchReduce" /\ mainI' = 0 /\ UNCHANGED proc
    /\ UNCHANGED <<files, diskVars, wg, mapPc, mapCounts, mapTodo, mapClosed, redVars,
                   masterVars, gateVars, sent>>

\* wg.Add(1); go ReduceTask(i, ...)
MainLaunchReduce ==
    /\ Running /\ mainPc = "launchReduce" /\ mainI < NReduce
    /\ wg' = wg + 1
    /\ redPc' = [redPc EXCEPT ![mainI] = "diag"]
    /\ mainI' = mainI + 1
    /\ UNCHANGED <<files, diskVars, proc, mainPc, mapVars, redI, redCounts,
                   reduceResults, reduceClosed, masterVars, gateVars, sent>>

\* wg.Wait(); close(reduceResults)
MainReduceBarrier ==
    /\ Running /\ mainPc = "launchReduce" /\ mainI = NReduce
    /\ wg = 0
    /\ reduceClosed' = TRUE
    /\ mainPc' = "checkReduce"
    /\ UNCHANGED <<files, diskVars, proc, mainI, wg, mapVars, redPc, redI,
                   redCounts, reduceResults, masterVars, gateVars, sent>>

MainCheckReduce ==
    /\ Running /\ mainPc = "checkReduce"
    /\ reduceResults' = <<>>
    /\ IF HasError(reduceResults)
       THEN proc' = "fatal" /\ UNCHANGED mainVars
       ELSE mainPc' = "callDone" /\ UNCHANGED <<proc, mainI>>
    /\ UNCHANGED <<files, diskVars, wg, mapVars, redPc, redI, redCounts,
                   reduceClosed, masterVars, gateVars, sent>>

\* rpc.Dial, which may fail (log.Fatal ends the process, Done not called),
\* and client.Call("Master.Done", ...): the server runs Master.Done in a
\* goroutine of its own, and main waits for the reply.
MainCallDone ==
    /\ Running /\ mainPc = "callDone"
    /\ \/ /\ proc' = "fatal"
          /\ UNCHANGED <<mainPc, donePc>>
       \/ /\ donePc' = [donePc EXCEPT !["main"] = "send"]
          /\ mainPc' = "awaitDone"
          /\ UNCHANGED proc
    /\ UNCHANGED <<files, diskVars, mainI, wg, mapVars, redVars,
                   masterVars, waitPc, sent>>

\* client.Call returns an error, the connection being lost while main
\* waits for the reply: log.Fatal ends the process.
MainCallError ==
    /\ Running /\ mainPc = "awaitDone"
    /\ proc' = "fatal"
    /\ UNCHANGED <<files, diskVars, mainVars, wg, mapVars, redVars,
                   masterVars, gateVars, sent>>

\* The phases of a run, up to main's call of Done.
RunNext ==
    \/ \E t \in MapIds : MapRead(t)
    \/ \E t \in MapIds : MapCreateDiagnosis(t)
    \/ \E t \in MapIds : MapWriteDiagnosis(t)
    \/ \E t \in MapIds : MapCreateTreatment(t)
    \/ \E t \in MapIds : MapWriteTreatment(t)
    \/ \E t \in MapIds : MapSendNil(t)
    \/ \E t \in MapIds : MapClose(t)
    \/ \E t \in MapIds : MapWgDone(t)
    \/ \E t \in MapIds : MapPanicDefers(t)
    \/ \E t \in MapIds : PanicExit(t)
    \/ \E r \in ReduceIds : ReduceReadDiagnosis(r)
    \/ \E r \in ReduceIds : ReduceReadTreatment(r)
    \/ \E r \in ReduceIds : ReduceWriteReport(r)
    \/ \E r \in ReduceIds : ReduceWgDone(r)
    \/ MainSetup
    \/ MainLaunchMap \/ MainMapBarrier \/ MainCheckMap
    \/ MainLaunchReduce \/ MainReduceBarrier \/ MainCheckReduce
    \/ MainCallDone

Next == RunNext \/ MainCallError \/ \E name \in DOMAIN fs : Tamper(name)

Spec == Init /\ [][Next]_vars

\* ------------------------------------------------------- Done and Wait
\* Master.done is unbuffered: the send of a Done call and the receive of a
\* Wait call happen together, or neither does.

\* The coordinator exists and is served: main is past NewMaster,
\* rpc.Register, net.Listen and go rpc.Accept.
Serving == mainPc # "setup"

\* A remote client calls Master.Done over RPC. The call reaches the handler
\* only once the coordinator is served.
ClientCallDone(d) ==
    /\ Running /\ Serving /\ donePc[d] = "idle"
    /\ donePc' = [donePc EXCEPT ![d] = "send"]
    /\ UNCHANGED <<files, diskVars, proc, mainVars, wg, mapVars, redVars,
                   masterVars, waitPc, sent>>

\* Master.Wait, were the done channel closed or pre-filled: the receive
\* completes with no Done call to meet.
WaiterCallWaitNoBlock(w) ==
    /\ proc = "running" /\ Serving /\ waitPc[w] = "idle"
    /\ waitPc' = [waitPc EXCEPT ![w] = "returned"]
    /\ UNCHANGED <<files, fs, openW, report, tampered, lost, proc, mainPc, mainI, wg,
                   mapPc, mapCounts, mapTodo, mapResults, mapClosed, redPc, redI,
                   redCounts, reduceResults, reduceClosed, mapTasks,
                   reduceTasks, leases, donePc, sent>>

\* A goroutine other than main calls Wait on the coordinator main has built.
\* Wait is not an RPC method (it has no args and reply), so the caller is a
\* goroutine of the coordinator's own process; main's call is the only one
\* the program makes itself.
WaiterCallWait(w) ==
    /\ Running /\ Serving /\ waitPc[w] = "idle"
    /\ waitPc' = [waitPc EXCEPT ![w] = "recv"]
    /\ UNCHANGED <<files, diskVars, proc, mainVars, wg, mapVars, redVars,
                   masterVars, donePc, sent>>

\* DoneMeetsWaiter, were the done channel buffered: the send completes and
\* Done returns while the waiter has received nothing.
DoneMeetsWaiterBuffered(d, w) ==
    /\ proc = "running" /\ donePc[d] = "send"
    /\ donePc' = [donePc EXCEPT ![d] = "replied"]
    /\ UNCHANGED <<files, fs, openW, report, tampered, lost, proc, mainPc, mainI, wg,
                   mapPc, mapCounts, mapTodo, mapResults, mapClosed, redPc, redI,
                   redCounts, reduceResults, reduceClosed, mapTasks,
                   reduceTasks, leases, waitPc, sent>>

\* m.done <- true of Done call d meets <-m.done of waiter w: Wait returns,
\* and Done sets its reply and returns.
DoneMeetsWaiter(d, w) ==
    /\ Running /\ donePc[d] = "send" /\ waitPc[w] = "recv"
    /\ donePc' = [donePc EXCEPT ![d] = "replied"]
    /\ waitPc' = [waitPc EXCEPT ![w] = "returned"]
    /\ UNCHANGED <<files, diskVars, proc, mainVars, wg, mapVars, redVars,
                   masterVars, sent>>

\* client.Call returns to main with the reply of its Done call;
\* fmt.Println(doneReply), and main goes on to master.Wait().
MainDoneReply ==
    /\ Running /\ mainPc = "awaitDone" /\ donePc["main"] = "replied"
    /\ mainPc' = "wait"
    /\ UNCHANGED <<files, diskVars, proc, mainI, wg, mapVars, redVars,
                   masterVars, gateVars, sent>>

\* m.done <- true of Done call d meets main's master.Wait(): main returns,
\* which ends the process.
DoneMeetsMain(d) ==
    /\ Running /\ donePc[d] = "send" /\ mainPc = "wait"
    /\ donePc' = [donePc EXCEPT ![d] = "replied"]
    /\ mainPc' = "returned"
    /\ proc' = "returned"
    /\ UNCHANGED <<files, diskVars, mainI, wg, mapVars, redVars, masterVars,
                   waitPc, sent>>

\* The steps of the program's own goroutines once Done is in play.
GateProgram ==
    \/ RunNext
    \/ MainDoneReply
    \/ \E d \in DoneCallers : DoneMeetsMain(d)
    \/ \E d \in DoneCallers, w \in Waiters : DoneMeetsWaiter(d, w)

GateInit ==
    \E n \in 0..MaxGateMap : \E contents \in PartitionContents(n, MaxGateLines) :
        Boot(contents)

GateNext ==
    \/ GateProgram
    \/ MainCallError
    \/ \E d \in DoneClients : ClientCallDone(d)
    \/ \E w \in Waiters : WaiterCallWait(w)

\* A run with the other callers of Done and Wait. Go schedules every
\* goroutine that can run; the callers from outside need not call at all,
\* and the connection need not fail.
GateSpec == GateInit /\ [][GateNext]_vars /\ WF_vars(GateProgram)

\* ------------------------------------------------------- lease operations
Clients == 1..MaxClients

\* AssignMapTask, were the index read and left in the channel.
AssignMapTaskPeek(c) ==
    /\ proc = "running" /\ Len(leases) < MaxCalls
    /\ leases' = Append(leases, [client |-> c, pool |-> "map",
                                 ok |-> mapTasks # <<>>,
                                 task |-> IF mapTasks # <<>> THEN Head(mapTasks) ELSE 0])
    /\ UNCHANGED <<files, fs, openW, report, tampered, lost, proc, mainPc, mainI, wg,
                   mapPc, mapCounts, mapTodo, mapResults, mapClosed, redPc, redI,
                   redCounts, reduceResults, reduceClosed, mapTasks,
                   reduceTasks, donePc, waitPc, sent>>

\* AssignMapTask, were a leased index put back at the end of the channel.
AssignMapTaskRequeue(c) ==
    /\ proc = "running" /\ Len(leases) < MaxCalls
    /\ leases' = Append(leases, [client |-> c, pool |-> "map",
                                 ok |-> mapTasks # <<>>,
                                 task |-> IF mapTasks # <<>> THEN Head(mapTasks) ELSE 0])
    /\ mapTasks' = IF mapTasks # <<>> THEN Append(Tail(mapTasks), Head(mapTasks))
                   ELSE mapTasks
    /\ UNCHANGED <<files, fs, openW, report, tampered, lost, proc, mainPc, mainI, wg,
                   mapPc, mapCounts, mapTodo, mapResults, mapClosed, redPc, redI,
                   redCounts, reduceResults, reduceClosed, reduceTasks, donePc,
                   waitPc, sent>>

\* AssignMapTask, were a granted map lease to take a reduce index with it.
AssignMapTaskBoth(c) ==
    /\ proc = "running" /\ Len(leases) < MaxCalls
    /\ IF mapTasks # <<>>
       THEN /\ leases' = Append(leases, [client |-> c, pool |-> "map", ok |-> TRUE,
                                         task |-> Head(mapTasks)])
            /\ mapTasks' = Tail(mapTasks)
            /\ reduceTasks' = IF reduceTasks # <<>> THEN Tail(reduceTasks) ELSE reduceTasks
       ELSE /\ leases' = Append(leases, [client |-> c, pool |-> "map", ok |-> FALSE,
                                         task |-> 0])
            /\ UNCHANGED <<mapTasks, reduceTasks>>
    /\ UNCHANGED <<files, fs, openW, report, tampered, lost, proc, mainPc, mainI, wg,
                   mapPc, mapCounts, mapTodo, mapResults, mapClosed, redPc, redI,
                   redCounts, reduceResults, reduceClosed, donePc, waitPc, sent>>

\* AssignMapTask: the select receives an index from m.mapTasks when one is
\* buffered, and takes the default branch otherwise.
AssignMapTask(c) ==
    /\ Running /\ Len(leases) < MaxCalls
    /\ IF mapTasks # <<>>
       THEN /\ leases' = Append(leases, [client |-> c, pool |-> "map", ok |-> TRUE,
                                         task |-> Head(mapTasks)])
            /\ mapTasks' = Tail(mapTasks)
       ELSE /\ leases' = Append(leases, [client |-> c, pool |-> "map", ok |-> FALSE,
                                         task |-> 0])
            /\ UNCHANGED mapTasks
    /\ UNCHANGED <<files, diskVars, proc, mainVars, wg, mapVars, redVars,
                   reduceTasks, gateVars, sent>>

\* AssignReduceTask: the same over m.reduceTasks.
AssignReduceTask(c) ==
    /\ Running /\ Len(leases) < MaxCalls
    /\ IF reduceTasks # <<>>
       THEN /\ leases' = Append(leases, [client |-> c, pool |-> "reduce", ok |-> TRUE,
                                         task |-> Head(reduceTasks)])
            /\ reduceTasks' = Tail(reduceTasks)
       ELSE /\ leases' = Append(leases, [client |-> c, pool |-> "reduce", ok |-> FALSE,
                                         task |-> 0])
            /\ UNCHANGED reduceTasks
    /\ UNCHANGED <<files, diskVars, proc, mainVars, wg, mapVars, redVars,
                   mapTasks, gateVars, sent>>

\* The coordinator of a run over n partitions, as NewMaster built it.
LeaseInit == \E n \in 0..MaxMap : Start([i \in 1..n |-> <<>>])

LeaseNext ==
    \/ \E c \in Clients : AssignMapTask(c)
    \/ \E c \in Clients : AssignReduceTask(c)

\* The coordinator under concurrent remote lease calls.
LeaseSpec == LeaseInit /\ [][LeaseNext]_vars

\* ------------------------------------------------- the coordinator's API
\* The three kinds of remote call on one coordinator, in any interleaving:
\* leases, Done calls and Wait calls.
CoordNext ==
    \/ LeaseNext
    \/ \E d \in DoneClients : ClientCallDone(d)
    \/ \E w \in Waiters : WaiterCallWait(w)
    \/ \E d \in DoneClients, w \in Waiters : DoneMeetsWaiter(d, w)

CoordSpec == LeaseInit /\ [][CoordNext]_vars

\* -------------------------------------------------------------- properties
MapLeases == {i \in 1..Len(leases) : leases[i].pool = "map"}
\* How many map leases succeeded before call i.
GrantedBefore(i) == Cardinality({j \in MapLeases : j < i /\ leases[j].ok})

\* C1: under any interleaving of the remote lease calls, no index of a pool
\* is returned to two successful calls.
C1_NoIndexLeasedTwice ==
    \A i, j \in 1..Len(leases) :
        (i # j /\ leases[i].ok /\ leases[j].ok /\ leases[i].pool = leases[j].pool)
            => leases[i].task # leases[j].task

\* Two clients have each been granted a map index.
C1_Witness ==
    \E i, j \in MapLeases :
        leases[i].ok /\ leases[j].ok /\ leases[i].client # leases[j].client

\* C2: of the map lease calls exactly the first NMap succeed, each with an
\* index of 0..NMap-1 not returned before; every later call fails, so that
\* no call succeeds after one has failed.
C2_PoolExhausts ==
    \A i \in MapLeases :
        /\ leases[i].ok <=> GrantedBefore(i) < NMap
        /\ leases[i].ok =>
              /\ leases[i].task \in 0..(NMap - 1)
              /\ \A j \in MapLeases : (j < i /\ leases[j].ok) => leases[j].task # leases[i].task
        /\ ~leases[i].ok => \A j \in MapLeases : j > i => ~leases[j].ok

\* A pool of two indices was leased out and two further calls failed.
C2_Witness ==
    /\ NMap = 2
    /\ \E i, j \in MapLeases :
          /\ i < j /\ ~leases[i].ok /\ ~leases[j].ok
          /\ GrantedBefore(i) = NMap
          /\ {leases[k].task : k \in {m \in MapLeases : leases[m].ok}} = 0..(NMap - 1)

\* C3: once both barriers passed cleanly, main's Done call returns and its
\* Wait returns: the run returns to its caller, unless the connection to the
\* server failed and ended it.
C3_RunReturns == (mainPc = "callDone") ~> (proc \in {"returned", "fatal"})

\* C4: when Done has been called twice, both calls return, unless a failed
\* connection ended the process first.
C4_BothDoneCallsReturn ==
    (\A d \in DoneCallers : donePc[d] # "idle")
        ~> ((\A d \in DoneCallers : donePc[d] = "replied") \/ proc = "fatal")

ReduceStarted == \E r \in ReduceIds : redPc[r] # "idle"
MapError == \E t \in MapIds : [phase |-> "map", task |-> t, err |-> "error"] \in sent
ReduceError(r) == [phase |-> "reduce", task |-> r, err |-> "error"] \in sent
WellFormed == \A t \in MapIds : ~ScanPanics(files[t + 1].lines)

\* C5: no reduce task has started unless every map task has returned, having
\* written both its intermediate files (it sent nil after them) and closed them.
C5_ReduceAfterAllMaps ==
    ReduceStarted =>
        \A t \in MapIds :
            /\ mapPc[t] = "done"
            /\ [phase |-> "map", task |-> t, err |-> "nil"] \in sent
            /\ \A h \in openW : h[1] # t

\* C6: once a map task reported an error no reduce task is started, and once
\* a reduce task reported an error Done is not called.
C6_NoProgressPastError ==
    /\ MapError => ~ReduceStarted
    /\ (\E r \in ReduceIds : ReduceError(r)) =>
          (donePc["main"] = "idle" /\ mainPc \in {"launchReduce", "checkReduce"})

\* The map phase passed cleanly, a reduce task reported an error, and main
\* ended the run at the reduce barrier without calling Done.
C6_Witness ==
    /\ ~MapError /\ \E r \in ReduceIds : ReduceError(r)
    /\ proc = "fatal" /\ mainPc = "checkReduce" /\ donePc["main"] = "idle"

\* C7: a map task that met a line of fewer than six tokens reports an error
\* on its result channel and does not panic.
C7_ShortLineReported ==
    \A t \in MapIds :
        (ScanPanics(files[t + 1].lines) /\ mapPc[t] \notin {"idle", "read"})
            => /\ mapPc[t] \notin {"panicking", "dying"}
               /\ [phase |-> "map", task |-> t, err |-> "error"] \in sent

\* The values map tasks counted in a category, and their sums over the tasks.
Counted(cat) == UNION {DOMAIN mapCounts[t][cat] : t \in MapIds}
RECURSIVE SumOver(_, _, _)
SumOver(ts, cat, v) ==
    IF ts = {} THEN 0
    ELSE LET t == CHOOSE x \in ts : TRUE
         IN (IF v \in DOMAIN mapCounts[t][cat] THEN mapCounts[t][cat][v] ELSE 0)
            + SumOver(ts \ {t}, cat, v)

\* Both barriers passed cleanly over well-formed partitions, the intermediate
\* files being those the map tasks wrote.
SuccessfulRun ==
    /\ proc = "running" /\ mainPc \in {"callDone", "awaitDone"}
    /\ WellFormed /\ tampered = 0

\* C8: after a successful run the report's line for each value V gives the
\* sum of the map tasks' counts of V, and the report has no other line.
C8_ReportIsSum ==
    SuccessfulRun =>
        /\ report.exists
        /\ \A cat \in Categories :
              report[cat] = {<<v, FormatInt(SumOver(MapIds, cat, v))>> : v \in Counted(cat)}

\* C9: when an expected intermediate file is missing, a reduce task that
\* has run its course has reported an error, and no report is ever created.
C9_MissingFileFails ==
    (ReduceStarted /\ \E name \in Expected : ~fs[name].exists) =>
        /\ ~report.exists
        /\ \A r \in ReduceIds : redPc[r] \in {"wgDone", "done"} => ReduceError(r)

\* Every map task wrote its files, one was deleted, and the reduce task's
\* error ended the run.
C9_Witness ==
    /\ \A t \in MapIds : mapPc[t] = "done"
    /\ \E name \in Expected : ~fs[name].exists
    /\ \E r \in ReduceIds : redPc[r] = "done" /\ ReduceError(r)
    /\ proc = "fatal" /\ ~report.exists

\* C10: a reduce task that has run over a file holding a line that does not
\* parse as "value count" has reported an error and written no report.
C10_BadLineFails ==
    \A r \in ReduceIds :
        (/\ redPc[r] \in {"wgDone", "done"}
         /\ \E name \in Expected : \E l \in fs[name].lines : Sscanf(l).err)
            => (ReduceError(r) /\ ~report.exists)
\* A Wait call has returned: a waiter's, or main's own.
WaitReturned == (\E w \in Waiters : waitPc[w] = "returned") \/ mainPc = "returned"
DoneStarted == \E d \in DoneCallers : donePc[d] # "idle"

\* C11: a Wait call has returned only if a Done call on the coordinator has
\* started, whatever lease calls succeeded or failed in between.
C11_WaitAfterDone == WaitReturned => DoneStarted

\* A waiter returned after both a granted and a refused lease call.
C11_Witness ==
    /\ \E w \in Waiters : waitPc[w] = "returned"
    /\ \E i, j \in 1..Len(leases) : leases[i].ok /\ ~leases[j].ok

\* A Done call has completed its send: the gate has fired.
GateFired == \E d \in DoneCallers : donePc[d] = "replied"

\* C12: once a Done call has fired the gate, every Wait call in progress,
\* main's or another goroutine's, eventually returns with no further Done.
C12_FiredGateReleasesAll ==
    /\ \A w \in Waiters : (GateFired /\ waitPc[w] = "recv") ~> (waitPc[w] = "returned")
    /\ (GateFired /\ mainPc = "wait") ~> (mainPc = "returned")

\* The (value, count) pairs ReduceTask's Sscanf reads from a file's lines,
\* and the entries of a tally.
ParsedPairs(lines) == {<<Sscanf(l).key, Sscanf(l).count>> : l \in lines}
Entries(m) == {<<k, m[k]>> : k \in DOMAIN m}

\* C13: the pairs parsed from an intermediate file that its map task has
\* finished writing (it sent nil) and nothing else has touched are exactly
\* the entries of the tally the task wrote it from, and every line parses.
C13_RoundTrip ==
    tampered = 0 =>
        \A t \in MapIds : \A cat \in Categories :
            LET name == IntermediateName(cat, FileName(t), t)
            IN [phase |-> "map", task |-> t, err |-> "nil"] \in sent =>
                  /\ fs[name].exists
                  /\ ParsedPairs(fs[name].lines) = Entries(mapCounts[t][cat])
                  /\ \A l \in fs[name].lines : ~Sscanf(l).err

\* The tasks that are past their send on the result channel, and the values
\* a task has sent.
MapSent == {t \in MapIds : mapPc[t] \in {"closing", "wgDone", "done"}}
ReduceSent == {r \in ReduceIds : redPc[r] \in {"wgDone", "done"}}
SentBy(phase, t) == {e \in {"nil", "error"} : [phase |-> phase, task |-> t, err |-> e] \in sent}

\* C14: a result channel never holds more values than its capacity, so no
\* send blocks; until main drains it, it holds one value for each task past
\* its send; a task that has released the barrier has sent exactly one value;
\* and once main has closed a channel no task of the phase has a send ahead.
C14_OneSendBeforeBarrier ==
    /\ Len(mapResults) <= NMap /\ Len(reduceResults) <= NReduce
    /\ (proc # "fatal" /\ mainPc \in {"launchMap", "checkMap"}) =>
          Len(mapResults) = Cardinality(MapSent)
    /\ (proc # "fatal" /\ mainPc \in {"launchReduce", "checkReduce"}) =>
          Len(reduceResults) = Cardinality(ReduceSent)
    /\ \A t \in MapIds :
          /\ Cardinality(SentBy("map", t)) = IF t \in MapSent THEN 1 ELSE 0
          /\ mapPc[t] = "done" => t \in MapSent
    /\ \A r \in ReduceIds :
          /\ Cardinality(SentBy("reduce", r)) = IF r \in ReduceSent THEN 1 ELSE 0
          /\ redPc[r] = "done" => r \in ReduceSent
    /\ mapClosed => \A t \in MapIds : mapPc[t] \in {"done", "dying"}
    /\ reduceClosed => \A r \in ReduceIds : redPc[r] = "done"

\* Two map tasks filled the map channel to its capacity, one with an error
\* and one with nil, and main closed it.
C14_Witness ==
    /\ NMap = 2 /\ mapClosed /\ Len(mapResults) = NMap
    /\ \E t, u \in MapIds : SentBy("map", t) = {"nil"} /\ SentBy("map", u) = {"error"}

\* What a lease call that has just returned did to its own pool: a granted
\* call took the head of the pool and returned it, a refused call found the
\* pool empty and left it so.
LeaseEffect(call, pool, poolAfter) ==
    IF call.ok
    THEN pool # <<>> /\ call.task = Head(pool) /\ poolAfter = Tail(pool)
    ELSE pool = <<>> /\ poolAfter = pool

\* C15: a lease call takes exactly one index from its pool when it is
\* granted and none when it is refused, a call is refused only on an empty
\* pool, and either way the other pool and the state of the Done and Wait
\* calls are as they were.
C15_LeaseFrame ==
    [][leases' # leases =>
          LET call == leases'[Len(leases')]
          IN /\ donePc' = donePc /\ waitPc' = waitPc
             /\ IF call.pool = "map"
                THEN LeaseEffect(call, mapTasks, mapTasks') /\ reduceTasks' = reduceTasks
                ELSE LeaseEffect(call, reduceTasks, reduceTasks') /\ mapTasks' = mapTasks]_vars

\* Each pool has granted a lease and refused one while a Done call was
\* blocked in its send.
C15_Witness ==
    /\ donePc["r1"] = "send"
    /\ \A pool \in {"map", "reduce"} :
          \E i, j \in 1..Len(leases) :
              /\ leases[i].pool = pool /\ leases[i].ok
              /\ leases[j].pool = pool /\ ~leases[j].ok

\* C16: with no remote caller, at every point of a run once the coordinator
\* is built the map pool holds all of 0..NMap-1 and the reduce pool all of
\* 0..NReduce-1, whatever tasks main has launched or seen finish, and no
\* lease call has been made.
C16_PoolsUntouched ==
    /\ leases = <<>>
    /\ mainPc # "setup" => (mapTasks = Indices(NMap) /\ reduceTasks = Indices(NReduce))

\* Both barriers are passed, every task of two partitions has run to its
\* end, and the index of each of them is still in its pool.
C16_Witness ==
    /\ NMap = 2 /\ mainPc = "callDone" /\ reduceClosed
    /\ \A t \in MapIds : mapPc[t] = "done" /\ \E i \in 1..Len(mapTasks) : mapTasks[i] = t
    /\ \A r \in ReduceIds :
          redPc[r] = "done" /\ \E i \in 1..Len(reduceTasks) : reduceTasks[i] = r

\* The map tasks that hold the file of this name open for writing.
Writers(name) == {t \in MapIds : <<t, name>> \in openW}

\* C17: the intermediate files of two distinct map tasks have distinct
\* names, as the strings Sprintf builds, so have the two files of one task,
\* and no file is open for writing in two map tasks at once.
C17_NoSharedIntermediateFile ==
    /\ \A t, u \in MapIds :
          t # u => \A n \in MapFiles(t) : \A m \in MapFiles(u) : NameText(n) # NameText(m)
    /\ \A t \in MapIds :
          \A n, m \in MapFiles(t) : n # m => NameText(n) # NameText(m)
    /\ \A name \in DOMAIN fs : Cardinality(Writers(name)) <= 1
    /\ \A h \in openW : h[2] \in MapFiles(h[1])

\* Two map tasks, over a.txt and a.txt-0.txt, have all their files open at
\* the same time.
C17_Witness ==
    /\ NMap = 2
    /\ \A t \in MapIds : mapPc[t] = "send" /\ \A n \in MapFiles(t) : <<t, n>> \in openW

\* How many Done calls have completed their send, and how many Wait calls
\* (the waiters' and main's) have returned.
DonesCompleted == Cardinality({d \in DoneCallers : donePc[d] = "replied"})
WaitsReturned ==
    Cardinality({w \in Waiters : waitPc[w] = "returned"})
        + (IF mainPc = "returned" THEN 1 ELSE 0)

\* C18: in every state as many Done calls have completed their send as Wait
\* calls have returned: each send is taken by exactly one Wait.
C18_DoneWaitPaired == DonesCompleted = WaitsReturned

\* Main's Done call released the waiter, and the client's Done call released
\* main's Wait.
C18_Witness ==
    /\ \A d \in DoneCallers : donePc[d] = "replied"
    /\ \A w \in Waiters : waitPc[w] = "returned"
    /\ mainPc = "returned"
=============================================================================
